---------------------------- MODULE Spec2Model ----------------------------
(***************************************************************************)
(* Footy Rater: the rating engine (ratingEngine.js), the match-source      *)
(* client (FootballAPIService, ratingEngine.js lines 170-429) and the      *)
(* JSON / in-memory store (FootballDatabase, database.js lines 4-457);     *)
(* further down the plain JSON store whose reads recompute a missing       *)
(* breakdown, the SQLite store (Database, database.js lines 462-978) and   *)
(* the server's start with its health route.                               *)
(*                                                                         *)
(* A goal event {team, minute, scorer, type} is the record                 *)
(* [team, minute, hasMinute]: scorer and type are never read by the        *)
(* engine; hasMinute = FALSE stands for a goal object without a minute     *)
(* field (goal.minute is undefined).                                       *)
(***************************************************************************)
EXTENDS Integers, Sequences, FiniteSets, TLC

VARIABLES
    engine,        \* the FootballRatingEngine object's fields
    matchData,     \* the match record handed to calculateRating
    rating,        \* <<>> before any call, <<r>> after: the last call's return value
    apiMatch,      \* a raw match record of the upstream API
    runs,          \* runs[k]: <<>> or <<result>> of the k-th format-and-rate pass
    matches,       \* FootballDatabase.matches
    ratings,       \* FootballDatabase.ratings
    nextMatchId,   \* FootballDatabase.nextMatchId
    nextRatingId,  \* FootballDatabase.nextRatingId
    isVercel,      \* FootballDatabase.isVercel
    response,      \* the last store operation: its arguments and what it returned
    submitted,     \* history: the external ids handed to saveMatch so far
    loaded,        \* history: the external ids initialize() put in the store
    savedWith,     \* history: [apiId, rating] for each insert, rating being the one
                   \* handed to the saveMatch call that inserted apiId
    now,           \* Date.now(), in milliseconds
    callHistory,   \* FootballAPIService.callHistory
    caller,        \* caller[c]: where the c-th parallel makeAPIRequest call stands
    issued,        \* history: when the outbound requests of the last minute went out
    calls,         \* history: the number of makeAPIRequest calls so far
    upstream,      \* history: what the upstream API did in the last fetch or lookup
    pending,       \* the matches a fetch run has still to rate and save
    http,          \* the response of the last fetch or details request
    passed,        \* history: the statuses of the matches handed to calculateRating
    saving,        \* saving[c]: where the c-th saveMatch call on the SQLite store stands
    dbInitialized, \* the server's dbInitialized flag
    initialization,\* the promise of database.initialize(): pending, resolved, rejected
    client         \* client[c]: where the c-th page's checkHealth stands

engineVars == <<engine, matchData, rating>>
sourceVars == <<apiMatch, runs>>
storeVars  == <<matches, ratings, nextMatchId, nextRatingId, isVercel,
                response, submitted, loaded, savedWith>>
limiterVars == <<now, callHistory, caller, issued, calls>>
serverVars == <<upstream, pending, http, passed>>
sqliteVars == <<saving>>
healthVars == <<dbInitialized, initialization, client>>
vars == <<engine, matchData, rating, apiMatch, runs, matches, ratings,
          nextMatchId, nextRatingId, isVercel, response, submitted, loaded,
          savedWith, now, callHistory, caller, issued, calls, upstream, pending,
          http, passed, saving, dbInitialized, initialization, client>>

---------------------------------------------------------------------------
(* Bounds of the model *)

MaxScore == 3
MaxGoals == 3
MaxTimingGoals == 3
MaxSrcScore == 1
MaxSrcGoals == 2
MaxRuns == 2
MaxApiId == 1
MaxParallel == 2
MaxCalls == 12
TicksPerMinute == 2
MaxMinutes == 1
MaxFetched == 1
MaxNegative == 2
MaxStoredGoals == 2
MaxSqlIds == 2
MaxClients == 2
MaxRetries == 5

---------------------------------------------------------------------------
(* Helpers *)

Min(a, b) == IF a <= b THEN a ELSE b

SeqsUpTo(S, n) == UNION {[1..k -> S] : k \in 0..n}

\* the comparator (a, b) => a.minute - b.minute returning a number > 0;
\* with a minute undefined it returns NaN, which sort takes as 0
ComesAfter(a, b) == a.hasMinute /\ b.hasMinute /\ a.minute - b.minute > 0

\* Array.prototype.sort((a, b) => a.minute - b.minute): stable, ascending
RECURSIVE InsertByMinute(_, _)
InsertByMinute(goal, sorted) ==
    IF sorted = <<>> THEN <<goal>>
    ELSE IF ComesAfter(Head(sorted), goal)
         THEN <<goal>> \o sorted
         ELSE <<Head(sorted)>> \o InsertByMinute(goal, Tail(sorted))

RECURSIVE SortByMinute(_)
SortByMinute(goals) ==
    IF goals = <<>> THEN <<>>
    ELSE InsertByMinute(goals[Len(goals)], SortByMinute(SubSeq(goals, 1, Len(goals) - 1)))

Goal(team, minute) == [team |-> team, minute |-> minute, hasMinute |-> TRUE]
GoalNoMinute(team) == [team |-> team, minute |-> 0, hasMinute |-> FALSE]

---------------------------------------------------------------------------
(* FootballRatingEngine *)

\* constructor: the three caps
FootballRatingEngine ==
    [maxGoalVolumeScore |-> 50,
     maxGoalTimingScore |-> 25,
     maxGoalDistributionScore |-> 25]

\* Math.round, applied to integer sums only
MathRound(x) == x

\* goal.minute || 0
MinuteOrZero(goal) ==
    IF goal.hasMinute /\ goal.minute # 0 THEN goal.minute ELSE 0

\* goal.minute >= n: undefined >= n is false
MinuteAtLeast(goal, n) == goal.hasMinute /\ goal.minute >= n

calculateGoalVolumeScore_SaturatesAtFive(totalGoals) ==
    IF totalGoals = 0 THEN 0
    ELSE IF totalGoals = 1 THEN 5
    ELSE IF totalGoals = 2 THEN 15
    ELSE IF totalGoals = 3 THEN 25
    ELSE IF totalGoals = 4 THEN 35
    ELSE 50

calculateGoalVolumeScore(totalGoals) ==
    IF totalGoals = 0 THEN 0
    ELSE IF totalGoals = 1 THEN 5
    ELSE IF totalGoals = 2 THEN 15
    ELSE IF totalGoals = 3 THEN 25
    ELSE IF totalGoals = 4 THEN 35
    ELSE IF totalGoals = 5 THEN 45
    ELSE 50

\* the body of the forEach callback of calculateGoalTimingScore
TimingPoints_StrictLastQuarter(goal) ==
    LET minute == MinuteOrZero(goal) IN
      (IF minute <= 15 THEN 3 ELSE 0)
    + (IF minute > 75 THEN 3 ELSE 0)
    + (IF minute >= 90 THEN 5 ELSE 0)
    + (IF minute >= 80 THEN 2 ELSE 0)

TimingPoints_EarlyUntilThirty(goal) ==
    LET minute == MinuteOrZero(goal) IN
      (IF minute <= 30 THEN 3 ELSE 0)
    + (IF minute >= 75 THEN 3 ELSE 0)
    + (IF minute >= 90 THEN 5 ELSE 0)
    + (IF minute >= 80 THEN 2 ELSE 0)

TimingPoints(goal) ==
    LET minute == MinuteOrZero(goal) IN
      (IF minute <= 15 THEN 3 ELSE 0)
    + (IF minute >= 75 THEN 3 ELSE 0)
    + (IF minute >= 90 THEN 5 ELSE 0)
    + (IF minute >= 80 THEN 2 ELSE 0)

RECURSIVE TimingWalk(_, _)
TimingWalk(score, goals) ==
    IF goals = <<>> THEN score
    ELSE TimingWalk(score + TimingPoints(Head(goals)), Tail(goals))

calculateGoalTimingScore(self, goals) ==
    Min(TimingWalk(0, goals), self.maxGoalTimingScore)

\* the body of the forEach callback of calculateGoalDistributionScore;
\* acc holds the closure's score, homeGoals and awayGoals
DistributionStep_ComebackWithoutReply(acc, goal) ==
    IF goal.team = "home" THEN
        LET h == acc.homeGoals + 1
            a == acc.awayGoals
        IN [homeGoals |-> h, awayGoals |-> a,
            score |-> acc.score
                    + (IF h > a THEN 4 ELSE 0)
                    + (IF h = a /\ a > 0 THEN 3 ELSE 0)
                    + (IF MinuteAtLeast(goal, 80) /\ h > a THEN 2 ELSE 0)]
    ELSE IF goal.team = "away" THEN
        LET a == acc.awayGoals + 1
            h == acc.homeGoals
        IN [homeGoals |-> h, awayGoals |-> a,
            score |-> acc.score
                    + (IF a > h THEN 4 ELSE 0)
                    + (IF a = h /\ h > 0 THEN 3 ELSE 0)
                    + (IF MinuteAtLeast(goal, 80) /\ a > h THEN 2 ELSE 0)]
    ELSE acc

DistributionStep_LateWinnerHomeOnly(acc, goal) ==
    IF goal.team = "home" THEN
        LET h == acc.homeGoals + 1
            a == acc.awayGoals
        IN [homeGoals |-> h, awayGoals |-> a,
            score |-> acc.score
                    + (IF h > a /\ a > 0 THEN 4 ELSE 0)
                    + (IF h = a /\ a > 0 THEN 3 ELSE 0)
                    + (IF MinuteAtLeast(goal, 80) /\ h > a THEN 2 ELSE 0)]
    ELSE IF goal.team = "away" THEN
        LET a == acc.awayGoals + 1
            h == acc.homeGoals
        IN [homeGoals |-> h, awayGoals |-> a,
            score |-> acc.score
                    + (IF a > h /\ h > 0 THEN 4 ELSE 0)
                    + (IF a = h /\ h > 0 THEN 3 ELSE 0)]
    ELSE acc

DistributionStep(acc, goal) ==
    IF goal.team = "home" THEN
        LET h == acc.homeGoals + 1
            a == acc.awayGoals
        IN [homeGoals |-> h, awayGoals |-> a,
            score |-> acc.score
                    + (IF h > a /\ a > 0 THEN 4 ELSE 0)
                    + (IF h = a /\ a > 0 THEN 3 ELSE 0)
                    + (IF MinuteAtLeast(goal, 80) /\ h > a THEN 2 ELSE 0)]
    ELSE IF goal.team = "away" THEN
        LET a == acc.awayGoals + 1
            h == acc.homeGoals
        IN [homeGoals |-> h, awayGoals |-> a,
            score |-> acc.score
                    + (IF a > h /\ h > 0 THEN 4 ELSE 0)
                    + (IF a = h /\ h > 0 THEN 3 ELSE 0)
                    + (IF MinuteAtLeast(goal, 80) /\ a > h THEN 2 ELSE 0)]
    ELSE acc

RECURSIVE DistributionWalk(_, _)
DistributionWalk(acc, goals) ==
    IF goals = <<>> THEN acc
    ELSE DistributionWalk(DistributionStep(acc, Head(goals)), Tail(goals))

DistributionRaw_BothScoredWhenLevel(md, goals) ==
    DistributionWalk(
        [homeGoals |-> 0, awayGoals |-> 0,
         score |-> IF md.homeScore >= 0 /\ md.awayScore >= 0 THEN 15 ELSE 0],
        goals).score

\* the score before the final Math.min
DistributionRaw(md, goals) ==
    DistributionWalk(
        [homeGoals |-> 0, awayGoals |-> 0,
         score |-> IF md.homeScore > 0 /\ md.awayScore > 0 THEN 15 ELSE 0],
        goals).score

calculateGoalDistributionScore_Unclamped(self, md, goals) ==
    DistributionRaw(md, goals)

calculateGoalDistributionScore(self, md, goals) ==
    Min(DistributionRaw(md, goals), self.maxGoalDistributionScore)

getRatingCategory_GoodFromForty(score) ==
    IF score >= 90 THEN "ALL TIME LEGENDARY"
    ELSE IF score >= 75 THEN "AMAZING"
    ELSE IF score >= 60 THEN "REALLY Good"
    ELSE IF score >= 40 THEN "Good"
    ELSE IF score >= 15 THEN "Average"
    ELSE "Very Poor"

getRatingCategory_LegendBands(score) ==
    IF score >= 90 THEN "Excellent"
    ELSE IF score >= 75 THEN "Very Good"
    ELSE IF score >= 60 THEN "Good"
    ELSE IF score >= 40 THEN "Average"
    ELSE IF score >= 20 THEN "Poor"
    ELSE "Very Poor"

getRatingCategory(score) ==
    IF score >= 90 THEN "ALL TIME LEGENDARY"
    ELSE IF score >= 75 THEN "AMAZING"
    ELSE IF score >= 60 THEN "REALLY Good"
    ELSE IF score >= 30 THEN "Good"
    ELSE IF score >= 15 THEN "Average"
    ELSE "Very Poor"

\* the value calculateRating returns
calculateRatingResult(self, md) ==
    LET goals == md.goals
        goalVolumeScore == calculateGoalVolumeScore(md.homeScore + md.awayScore)
        goalTimingScore == calculateGoalTimingScore(self, goals)
        goalDistributionScore == calculateGoalDistributionScore(self, md, goals)
        totalScore == goalVolumeScore + goalTimingScore + goalDistributionScore
    IN [totalScore |-> MathRound(totalScore),
        breakdown |-> [goalVolume |-> MathRound(goalVolumeScore),
                       goalTiming |-> MathRound(goalTimingScore),
                       goalDistribution |-> MathRound(goalDistributionScore)],
        rating |-> getRatingCategory(totalScore),
        match |-> [homeTeam |-> md.homeTeam,
                   awayTeam |-> md.awayTeam,
                   score |-> <<md.homeScore, "-", md.awayScore>>,
                   totalGoals |-> md.homeScore + md.awayScore]]

\* a call of calculateRating: the value returned, and the engine object and the
\* argument object as the call leaves them (it assigns to neither)
calculateRating_SortsGoalsInPlace(self, md) ==
    LET sorted == [md EXCEPT !.goals = SortByMinute(md.goals)]
    IN [returned |-> calculateRatingResult(self, sorted),
        self |-> self,
        matchData |-> sorted]

calculateRating(self, md) ==
    [returned |-> calculateRatingResult(self, md),
     self |-> self,
     matchData |-> md]

---------------------------------------------------------------------------
(* The states of the parts a specification leaves alone: the objects as   *)
(* their constructors leave them                                          *)

NoApiMatch == [status |-> "NONE"]

SourceIdle ==
    /\ apiMatch = NoApiMatch
    /\ runs = <<>>

StoreIdle ==
    /\ matches = <<>>
    /\ ratings = <<>>
    /\ nextMatchId = 1
    /\ nextRatingId = 1
    /\ isVercel = FALSE
    /\ response = [op |-> "none"]
    /\ submitted = {}
    /\ loaded = {}
    /\ savedWith = {}

\* the rate limiter of a new FootballAPIService, no call under way
LimiterIdle ==
    /\ now = 0
    /\ callHistory = <<>>
    /\ caller = [c \in 1..MaxParallel |-> [pc |-> "idle", now |-> 0, wakeAt |-> 0]]
    /\ issued = <<>>
    /\ calls = 0

\* the server with no fetch run or details request made
ServerIdle ==
    /\ upstream = [op |-> "none"]
    /\ pending = <<>>
    /\ http = [op |-> "none", status |-> 0, processed |-> 0]
    /\ passed = {}

\* no saveMatch call under way on the SQLite store
SqliteIdle == saving = <<>>

\* the server before database.initialize() settles, no page open
HealthIdle ==
    /\ dbInitialized = FALSE
    /\ initialization = "pending"
    /\ client = <<>>

EngineIdle ==
    /\ engine = FootballRatingEngine
    /\ matchData = [homeTeam |-> "", awayTeam |-> "", homeScore |-> 0,
                    awayScore |-> 0, goals |-> <<>>]
    /\ rating = <<>>

---------------------------------------------------------------------------
(* The rating engine on bounded inputs *)

Teams == {"home", "away"}

\* minutes on both sides of the late-goal edge (80), a stoppage-time minute,
\* and a goal without a minute
EngineGoals ==
    {Goal(t, m) : t \in Teams, m \in {79, 80, 90}}
        \cup {GoalNoMinute("home")}

\* both sides of every band edge of the timing scorer
TimingMinutes == {0, 15, 16, 74, 75, 79, 80, 89, 90, 120}

TimingGoals ==
    {Goal(t, m) : t \in Teams, m \in TimingMinutes}
        \cup {GoalNoMinute(t) : t \in Teams}

MatchInput(h, a, goals) ==
    [homeTeam |-> "Home FC", awayTeam |-> "Away FC",
     homeScore |-> h, awayScore |-> a, goals |-> goals]

CountTeam(goals, t) == Cardinality({i \in DOMAIN goals : goals[i].team = t})

\* score lines and goal lists chosen independently: the engine does not
\* require homeScore + awayScore = goals.length
EngineInputs ==
    {MatchInput(h, a, g) :
        h \in 0..MaxScore, a \in 0..MaxScore, g \in SeqsUpTo(EngineGoals, MaxGoals)}

\* goal lists over the band edges, the score line counting the goals
TimingInputs ==
    {MatchInput(CountTeam(g, "home"), CountTeam(g, "away"), g) :
        g \in SeqsUpTo(TimingGoals, MaxTimingGoals)}

\* POST /api/rate-match: rate the request body
RateMatch ==
    LET call == calculateRating(engine, matchData) IN
    /\ rating' = <<call.returned>>
    /\ engine' = call.self
    /\ matchData' = call.matchData
    /\ UNCHANGED sourceVars
    /\ UNCHANGED storeVars
    /\ UNCHANGED <<limiterVars, serverVars, sqliteVars, healthVars>>

InitEngine ==
    /\ engine = FootballRatingEngine
    /\ matchData \in EngineInputs
    /\ rating = <<>>
    /\ SourceIdle
    /\ StoreIdle
    /\ LimiterIdle
    /\ ServerIdle
    /\ SqliteIdle
    /\ HealthIdle

InitTiming ==
    /\ engine = FootballRatingEngine
    /\ matchData \in TimingInputs
    /\ rating = <<>>
    /\ SourceIdle
    /\ StoreIdle
    /\ LimiterIdle
    /\ ServerIdle
    /\ SqliteIdle
    /\ HealthIdle

NextEngine == RateMatch

SpecEngine == InitEngine /\ [][NextEngine]_vars

SpecTiming == InitTiming /\ [][NextEngine]_vars

Rated == rating # <<>>

---------------------------------------------------------------------------
(* Claims about the rating engine *)

\* C1: a rating returned by calculateRating has 0 <= goalVolume <= 50,
\* 0 <= goalTiming <= 25, 0 <= goalDistribution <= 25, totalScore equal to the
\* sum of the three sub-scores, and 0 <= totalScore <= 100.
C1_ScoresInRange ==
    Rated =>
        LET r == rating[1] IN
        /\ r.breakdown.goalVolume \in 0..50
        /\ r.breakdown.goalTiming \in 0..25
        /\ r.breakdown.goalDistribution \in 0..25
        /\ r.totalScore = r.breakdown.goalVolume + r.breakdown.goalTiming
                            + r.breakdown.goalDistribution
        /\ r.totalScore \in 0..100

\* a rated match whose three sub-scores all sit at their caps, the
\* distribution points having run past 25 before the cap
C1_Witness ==
    /\ Rated
    /\ rating[1].totalScore = 100
    /\ DistributionRaw(matchData, matchData.goals) > 25
    /\ TimingWalk(0, matchData.goals) > 25

C2_Table(t) ==
    CASE t = 0 -> 0
      [] t = 1 -> 5
      [] t = 2 -> 15
      [] t = 3 -> 25
      [] t = 4 -> 35
      [] t = 5 -> 45
      [] t >= 6 -> 50

\* C2: goalVolume is 0, 5, 15, 25, 35, 45 for a total of 0..5 goals and 50
\* from 6 goals on, is non-decreasing in the total, and is decided by
\* homeScore + awayScore alone, whatever the goals list holds.
C2_VolumeTable ==
    /\ Rated =>
          rating[1].breakdown.goalVolume
              = C2_Table(matchData.homeScore + matchData.awayScore)
    /\ \A t \in 0..(2 * MaxScore + 6) :
          /\ calculateGoalVolumeScore(t) = C2_Table(t)
          /\ calculateGoalVolumeScore(t) <= calculateGoalVolumeScore(t + 1)

\* a rated 5-goal score line whose goals list is empty
C2_Witness ==
    /\ Rated
    /\ matchData.homeScore + matchData.awayScore = 5
    /\ matchData.goals = <<>>
    /\ rating[1].breakdown.goalVolume = 45

C4_Other(t) == IF t = "home" THEN "away" ELSE "home"

C4_Bonus(s, o, goal) ==
      (IF s > o /\ o > 0 THEN 4 ELSE 0)
    + (IF s = o /\ o > 0 THEN 3 ELSE 0)
    + (IF goal.hasMinute /\ goal.minute >= 80 /\ s > o THEN 2 ELSE 0)

\* the bonuses of goals[i..], tally being the running tallies before goals[i]
RECURSIVE C4_Bonuses(_, _, _)
C4_Bonuses(goals, i, tally) ==
    IF i > Len(goals) THEN 0
    ELSE LET t == goals[i].team
             after == [tally EXCEPT ![t] = @ + 1]
         IN C4_Bonus(after[t], after[C4_Other(t)], goals[i])
              + C4_Bonuses(goals, i + 1, after)

C4_Expected(md) ==
    Min(25, (IF md.homeScore > 0 /\ md.awayScore > 0 THEN 15 ELSE 0)
              + C4_Bonuses(md.goals, 1, [t \in Teams |-> 0]))

\* C4: goalDistribution is min(25, B + the per-goal bonuses): B is 15 when
\* both final scores are positive; walking the goals in list order from 0-0,
\* a goal that takes its side's tally to s against o adds 4 if s > o and
\* o > 0, 3 if s = o and o > 0, and 2 if its minute >= 80 and s > o.
C4_DistributionFormula ==
    Rated => rating[1].breakdown.goalDistribution = C4_Expected(matchData)

\* a rated match with a comeback goal, an equalizer and a late winner in its
\* walk, capped at 25
C4_Witness ==
    /\ Rated
    /\ matchData.goals = <<Goal("home", 90), Goal("away", 79), Goal("away", 80)>>
    /\ matchData.homeScore = 1
    /\ matchData.awayScore = 2
    /\ rating[1].breakdown.goalDistribution = 25

C5_Bands ==
    {[label |-> "ALL TIME LEGENDARY", lo |-> 90, hi |-> 100],
     [label |-> "AMAZING", lo |-> 75, hi |-> 89],
     [label |-> "REALLY Good", lo |-> 60, hi |-> 74],
     [label |-> "Good", lo |-> 30, hi |-> 59],
     [label |-> "Average", lo |-> 15, hi |-> 29],
     [label |-> "Very Poor", lo |-> 0, hi |-> 14]}

C7_NoSideEffects ==
    /\ [][matchData' = matchData /\ engine' = engine]_vars
    /\ [](Rated => rating[1] = calculateRatingResult(FootballRatingEngine, matchData))

\* a rated match whose goals list is not in minute order
C7_Witness ==
    /\ Rated
    /\ Len(matchData.goals) >= 2
    /\ matchData.goals[1].hasMinute /\ matchData.goals[2].hasMinute
    /\ matchData.goals[1].minute > matchData.goals[2].minute

C3_Points(m) ==
    CASE m <= 15 -> 3
      [] m >= 16 /\ m <= 74 -> 0
      [] m >= 75 /\ m <= 79 -> 3
      [] m >= 80 /\ m <= 89 -> 5
      [] m >= 90 -> 10

C3_Minute(goal) == IF goal.hasMinute THEN goal.minute ELSE 0

C3_Sum(goals) ==
    LET RECURSIVE Upto(_)
        Upto(n) == IF n = 0 THEN 0
                   ELSE C3_Points(C3_Minute(goals[n])) + Upto(n - 1)
    IN Upto(Len(goals))

C3_Swap(goals, i, j) ==
    [k \in DOMAIN goals |-> IF k = i THEN goals[j] ELSE IF k = j THEN goals[i] ELSE goals[k]]

C3_Flip(goals, i) ==
    [goals EXCEPT ![i].team = IF @ = "home" THEN "away" ELSE "home"]

\* C3: goalTiming is min(25, sum of p(minute) over the goals), p being 3 up
\* to minute 15, 0 for 16..74, 3 for 75..79, 5 for 80..89 and 10 from 90, a
\* goal without a minute counting as minute 0; exchanging two goals of the
\* list or changing a goal's team tag does not change it.
C3_TimingFormula ==
    Rated =>
        LET goals == matchData.goals IN
        /\ rating[1].breakdown.goalTiming = Min(25, C3_Sum(goals))
        /\ \A i, j \in DOMAIN goals :
              calculateGoalTimingScore(engine, C3_Swap(goals, i, j))
                  = rating[1].breakdown.goalTiming
        /\ \A i \in DOMAIN goals :
              calculateGoalTimingScore(engine, C3_Flip(goals, i))
                  = rating[1].breakdown.goalTiming

\* a rated list with a goal without a minute, one at minute 75 and one at
\* minute 89: 3 + 3 + 5
C3_Witness ==
    /\ Rated
    /\ matchData.goals = <<Goal("away", 89), GoalNoMinute("home"), Goal("home", 75)>>
    /\ rating[1].breakdown.goalTiming = 11

---------------------------------------------------------------------------
(* FootballAPIService: from a raw API match to a match record             *)
(*                                                                         *)
(* A raw match is [id, status, homeTeamId, awayTeamId, fullTimeHome,       *)
(* fullTimeAway, utcDate, competition, goals], goals being the API's goal  *)
(* details [teamId, minute] (empty when the API sends none).               *)

\* the values Math.floor(Math.random() * 90) + 1 takes
RandomMinutes == 1..90

\* x || 0 on a number
OrZero(x) == IF x = 0 THEN 0 ELSE x

\* extractGoals; rnd holds the values the Math.random() expression takes, in
\* the order of the calls (home goals first, then away goals)
extractGoals(match, rnd) ==
    IF Len(match.goals) > 0 THEN
        SortByMinute(
            [i \in DOMAIN match.goals |->
                Goal(IF match.goals[i].teamId = match.homeTeamId THEN "home" ELSE "away",
                     match.goals[i].minute)])
    ELSE
        LET homeScore == OrZero(match.fullTimeHome)
            awayScore == OrZero(match.fullTimeAway)
        IN SortByMinute(
            [i \in 1..(homeScore + awayScore) |->
                Goal(IF i <= homeScore THEN "home" ELSE "away", rnd[i])])

\* the number of Math.random() calls extractGoals makes for a match
RandomDraws(match) ==
    IF Len(match.goals) > 0 THEN 0
    ELSE OrZero(match.fullTimeHome) + OrZero(match.fullTimeAway)

\* the map callback of formatMatches
formatMatch(match, rnd) ==
    [id |-> match.id,
     homeTeam |-> match.homeTeamId,
     awayTeam |-> match.awayTeamId,
     homeScore |-> OrZero(match.fullTimeHome),
     awayScore |-> OrZero(match.fullTimeAway),
     date |-> match.utcDate,
     status |-> match.status,
     competition |-> match.competition,
     goals |-> extractGoals(match, rnd)]

\* formatMatches: keep the FINISHED matches, map each; rnds[i] holds the
\* random values drawn for raw[i]
RECURSIVE formatMatches(_, _)
formatMatches(raw, rnds) ==
    IF raw = <<>> THEN <<>>
    ELSE IF Head(raw).status # "FINISHED"
         THEN formatMatches(Tail(raw), Tail(rnds))
         ELSE <<formatMatch(Head(raw), Head(rnds))>>
                  \o formatMatches(Tail(raw), Tail(rnds))

HomeId == "team-h"
AwayId == "team-a"

SrcGoalDetails == {[teamId |-> t, minute |-> m] : t \in {HomeId, AwayId}, m \in {10, 50, 90}}

RawMatch(status, h, a, details) ==
    [id |-> 1, status |-> status, homeTeamId |-> HomeId, awayTeamId |-> AwayId,
     fullTimeHome |-> h, fullTimeAway |-> a,
     utcDate |-> "2025-09-20T14:00:00Z", competition |-> <<"Premier", "League">>,
     goals |-> details]

\* raw matches: with goal details (the score line counting them) or without
ApiMatches ==
    {RawMatch(st, Cardinality({i \in DOMAIN d : d[i].teamId = HomeId}),
                  Cardinality({i \in DOMAIN d : d[i].teamId = AwayId}), d) :
        st \in {"FINISHED", "IN_PLAY"},
        d \in SeqsUpTo(SrcGoalDetails, MaxSrcGoals) \ {<<>>}}
    \cup
    {RawMatch(st, h, a, <<>>) :
        st \in {"FINISHED", "IN_PLAY"}, h \in 0..MaxSrcScore, a \in 0..MaxSrcScore}

\* what a pass reports of each match it rated
Scored(r) == [totalScore |-> r.totalScore, breakdown |-> r.breakdown, category |-> r.rating]

\* one pass over the raw match: formatMatches, then calculateRating on each
\* match it kept (the loop of POST /api/matches/fetch up to the rating)
FormatAndRate ==
    /\ Len(runs) < MaxRuns
    /\ \E rnd \in [1..RandomDraws(apiMatch) -> RandomMinutes] :
         LET formatted == formatMatches(<<apiMatch>>, <<rnd>>)
         IN runs' = Append(runs,
                [i \in DOMAIN formatted |->
                    Scored(calculateRating(engine, formatted[i]).returned)])
    /\ UNCHANGED <<apiMatch, engineVars, storeVars, limiterVars, serverVars, sqliteVars, healthVars>>

InitSource ==
    /\ apiMatch \in ApiMatches
    /\ runs = <<>>
    /\ EngineIdle
    /\ StoreIdle
    /\ LimiterIdle
    /\ ServerIdle
    /\ SqliteIdle
    /\ HealthIdle

NextSource == FormatAndRate

SpecSource == InitSource /\ [][NextSource]_vars

\* C6: two passes that format and rate the same raw match report the same
\* totalScore, breakdown and category, also for a raw match without goal
\* details.
C6_Reproducible ==
    Len(runs) >= 2 => runs[1] = runs[2]

---------------------------------------------------------------------------
(* FootballDatabase: the JSON / in-memory store (database.js lines 4-457). *)
(* created_at is written and never read; it is left out of the records.    *)
(* A competition name is the sequence of its words, so that                *)
(* String.prototype.includes is containment of a run of words.             *)

\* JSON.stringify(goals || []) and JSON.parse(match.goals || '[]'): the text
\* of a goals array, and the array a text stands for
JSONStringify(goals) == <<"json", goals>>
JSONParse(text) == text[2]

\* new Date(date) as a number, in seconds
NewDate(date) ==
    CASE date = "2025-09-10T19:00:00Z" -> 1757530800
      [] date = "2025-09-13T11:30:00Z" -> 1757763000
      [] date = "2025-09-13T14:00:00Z" -> 1757772000
      [] date = "2025-09-16T19:00:00Z" -> 1758049200
      [] date = "2025-09-20T14:00:00Z" -> 1758376800

\* hay.includes(needle)
Includes(hay, needle) ==
    \E i \in 1..(Len(hay) - Len(needle) + 1) :
        SubSeq(hay, i, i + Len(needle) - 1) = needle

PremierLeague == <<"Premier", "League">>
ChampionsLeague == <<"Champions", "League">>
UEFAChampionsLeague == <<"UEFA", "Champions", "League">>
LaLiga == <<"La", "Liga">>

\* the fields a new FootballDatabase has before initialize()
constructor ==
    [matches |-> <<>>, ratings |-> <<>>, nextMatchId |-> 1, nextRatingId |-> 1]

\* loadInitialData: the three sample matches and their ratings
loadInitialData ==
    [matches |-> <<
        [id |-> 1, api_id |-> 537817,
         home_team |-> "Arsenal FC", away_team |-> "Nottingham Forest FC",
         home_score |-> 3, away_score |-> 0,
         date |-> "2025-09-13T11:30:00Z", status |-> "FINISHED",
         competition |-> PremierLeague,
         goals |-> JSONStringify(<<Goal("home", 13), Goal("home", 66), Goal("home", 80)>>),
         watchability_score |-> 35, rating_category |-> "Good"],
        [id |-> 2, api_id |-> 537815,
         home_team |-> "AFC Bournemouth", away_team |-> "Brighton & Hove Albion FC",
         home_score |-> 2, away_score |-> 1,
         date |-> "2025-09-13T14:00:00Z", status |-> "FINISHED",
         competition |-> PremierLeague,
         goals |-> JSONStringify(<<Goal("home", 15), Goal("home", 37), Goal("away", 83)>>),
         watchability_score |-> 48, rating_category |-> "Good"],
        [id |-> 3, api_id |-> 551941,
         home_team |-> "Juventus FC", away_team |-> "Borussia Dortmund",
         home_score |-> 4, away_score |-> 4,
         date |-> "2025-09-16T19:00:00Z", status |-> "FINISHED",
         competition |-> UEFAChampionsLeague,
         goals |-> JSONStringify(<<Goal("home", 12), Goal("away", 26), Goal("home", 38),
                                   Goal("home", 51), Goal("away", 55), Goal("away", 55),
                                   Goal("away", 60), Goal("home", 83)>>),
         watchability_score |-> 83, rating_category |-> "AMAZING"] >>,
     ratings |-> <<
        [id |-> 1, match_id |-> 1, goal_volume_score |-> 25, goal_timing_score |-> 6,
         goal_distribution_score |-> 4, total_score |-> 35, rating_category |-> "Good"],
        [id |-> 2, match_id |-> 2, goal_volume_score |-> 25, goal_timing_score |-> 9,
         goal_distribution_score |-> 14, total_score |-> 48, rating_category |-> "Good"],
        [id |-> 3, match_id |-> 3, goal_volume_score |-> 50, goal_timing_score |-> 20,
         goal_distribution_score |-> 13, total_score |-> 83, rating_category |-> "AMAZING"] >>,
     nextMatchId |-> 4,
     nextRatingId |-> 4]

\* initialize(): in Vercel mode the sample data; in local mode loadData on a
\* data directory without files, or, when preparing the directory throws,
\* the fallback to the sample data
initialize(vercel, dirFails) ==
    IF vercel \/ dirFails THEN loadInitialData ELSE constructor

\* this.matches.find(m => m.api_id === id): the position of the first such
\* match, 0 when there is none
FindByApiId_ComparesInternalId(ms, id) ==
    IF \E i \in DOMAIN ms : ms[i].id = id
    THEN CHOOSE i \in DOMAIN ms :
            ms[i].id = id /\ \A j \in 1..(i - 1) : ms[j].id # id
    ELSE 0

FindByApiId(ms, id) ==
    IF \E i \in DOMAIN ms : ms[i].api_id = id
    THEN CHOOSE i \in DOMAIN ms :
            ms[i].api_id = id /\ \A j \in 1..(i - 1) : ms[j].api_id # id
    ELSE 0

\* this.ratings.find(r => r.match_id === match.id)
FindRating(rs, matchId) ==
    IF \E i \in DOMAIN rs : rs[i].match_id = matchId
    THEN CHOOSE i \in DOMAIN rs :
            rs[i].match_id = matchId /\ \A j \in 1..(i - 1) : rs[j].match_id # matchId
    ELSE 0

\* newMatch and newRating of saveMatch
newMatch(id, md, rd) ==
    [id |-> id, api_id |-> md.id,
     home_team |-> md.homeTeam, away_team |-> md.awayTeam,
     home_score |-> md.homeScore, away_score |-> md.awayScore,
     date |-> md.date, status |-> md.status, competition |-> md.competition,
     goals |-> JSONStringify(md.goals),
     watchability_score |-> rd.totalScore, rating_category |-> rd.rating]

newRating(id, matchId, rd) ==
    [id |-> id, match_id |-> matchId,
     goal_volume_score |-> rd.breakdown.goalVolume,
     goal_timing_score |-> rd.breakdown.goalTiming,
     goal_distribution_score |-> rd.breakdown.goalDistribution,
     total_score |-> rd.totalScore, rating_category |-> rd.rating]

\* saveMatch when the external id is already stored, at position k
ReturnExisting_UpdatesRating(k, md, rd) ==
    /\ response' = [op |-> "saveMatch", matchData |-> md, ratingData |-> rd,
                    threw |-> FALSE, returned |-> matches[k].id]
    /\ matches' = [matches EXCEPT ![k].watchability_score = rd.totalScore,
                                  ![k].rating_category = rd.rating]
    /\ UNCHANGED <<ratings, nextMatchId, nextRatingId, savedWith>>

ReturnExisting(k, md, rd) ==
    /\ response' = [op |-> "saveMatch", matchData |-> md, ratingData |-> rd,
                    threw |-> FALSE, returned |-> matches[k].id]
    /\ UNCHANGED <<matches, ratings, nextMatchId, nextRatingId, savedWith>>

InsertNew_KeepsNextMatchId(md, rd, writeFails) ==
    /\ matches' = Append(matches, newMatch(nextMatchId, md, rd))
    /\ ratings' = Append(ratings, newRating(nextRatingId, nextMatchId, rd))
    /\ nextMatchId' = nextMatchId
    /\ nextRatingId' = nextRatingId + 1
    /\ savedWith' = savedWith \cup {[apiId |-> md.id, rating |-> rd]}
    /\ response' = [op |-> "saveMatch", matchData |-> md, ratingData |-> rd,
                    threw |-> writeFails,
                    returned |-> IF writeFails THEN 0 ELSE nextMatchId]

\* saveMatch when the external id is new: both records are pushed, then
\* saveData writes the files (not in Vercel mode); when the write throws,
\* saveMatch rethrows with the records already in memory.  returned = 0
\* stands for a call that returned nothing.
InsertNew(md, rd, writeFails) ==
    /\ matches' = Append(matches, newMatch(nextMatchId, md, rd))
    /\ ratings' = Append(ratings, newRating(nextRatingId, nextMatchId, rd))
    /\ nextMatchId' = nextMatchId + 1
    /\ nextRatingId' = nextRatingId + 1
    /\ savedWith' = savedWith \cup {[apiId |-> md.id, rating |-> rd]}
    /\ response' = [op |-> "saveMatch", matchData |-> md, ratingData |-> rd,
                    threw |-> writeFails,
                    returned |-> IF writeFails THEN 0 ELSE nextMatchId]

\* saveMatch(matchData, ratingData); it has no await before its return, so
\* calls of concurrent requests run one after the other
saveMatch(md, rd, writeFails) ==
    /\ LET k == FindByApiId(matches, md.id)
       IN IF k # 0 THEN ReturnExisting(k, md, rd)
                   ELSE InsertNew(md, rd, writeFails)
    /\ submitted' = submitted \cup {md.id}
    /\ UNCHANGED <<isVercel, loaded>>

\* the map callback of the three read operations: a stored match and its
\* rating row as a response item
ProcessRow_RecomputesZeroBreakdown(rs, match) ==
    LET k == FindRating(rs, match.id)
        goals == JSONParse(match.goals)
        stored == [goalVolume |-> IF k = 0 THEN 0 ELSE OrZero(rs[k].goal_volume_score),
                   goalTiming |-> IF k = 0 THEN 0 ELSE OrZero(rs[k].goal_timing_score),
                   goalDistribution |->
                       IF k = 0 THEN 0 ELSE OrZero(rs[k].goal_distribution_score)]
        md == [homeScore |-> match.home_score, awayScore |-> match.away_score,
               homeTeam |-> match.home_team, awayTeam |-> match.away_team,
               goals |-> goals]
        breakdown ==
            IF stored.goalVolume = 0 /\ stored.goalTiming = 0
                    /\ stored.goalDistribution = 0 /\ Len(goals) > 0
            THEN calculateRatingResult(FootballRatingEngine, md).breakdown
            ELSE stored
    IN [id |-> match.id, apiId |-> match.api_id,
        homeTeam |-> match.home_team, awayTeam |-> match.away_team,
        homeScore |-> match.home_score, awayScore |-> match.away_score,
        date |-> match.date, status |-> match.status,
        competition |-> match.competition, goals |-> goals,
        rating |-> [totalScore |-> OrZero(match.watchability_score),
                    breakdown |-> breakdown,
                    category |-> match.rating_category]]

ProcessRow(rs, match) ==
    LET k == FindRating(rs, match.id)
        breakdown ==
            [goalVolume |-> IF k = 0 THEN 0 ELSE OrZero(rs[k].goal_volume_score),
             goalTiming |-> IF k = 0 THEN 0 ELSE OrZero(rs[k].goal_timing_score),
             goalDistribution |->
                 IF k = 0 THEN 0 ELSE OrZero(rs[k].goal_distribution_score)]
    IN [id |-> match.id, apiId |-> match.api_id,
        homeTeam |-> match.home_team, awayTeam |-> match.away_team,
        homeScore |-> match.home_score, awayScore |-> match.away_score,
        date |-> match.date, status |-> match.status,
        competition |-> match.competition, goals |-> JSONParse(match.goals),
        rating |-> [totalScore |-> OrZero(match.watchability_score),
                    breakdown |-> breakdown,
                    category |-> match.rating_category]]

processedMatches(rs, ms) == [i \in DOMAIN ms |-> ProcessRow(rs, ms[i])]

\* Array.prototype.sort with a comparator b.key - a.key: stable, descending.
\* Items are pairs <<key, value>>.
RECURSIVE InsertDescending(_, _)
InsertDescending(item, sorted) ==
    IF sorted = <<>> THEN <<item>>
    ELSE IF Head(sorted)[1] > item[1]
         THEN <<Head(sorted)>> \o InsertDescending(item, Tail(sorted))
         ELSE <<item>> \o sorted

RECURSIVE SortDescending(_)
SortDescending(items) ==
    IF items = <<>> THEN <<>>
    ELSE InsertDescending(Head(items), SortDescending(Tail(items)))

\* rows.sort((a, b) => new Date(b.date) - new Date(a.date))
SortByDateDescending_KeepsStoreOrder(rows) == rows

SortByDateDescending(rows) ==
    LET sorted == SortDescending([i \in DOMAIN rows |-> <<NewDate(rows[i].date), rows[i]>>])
    IN [i \in DOMAIN sorted |-> sorted[i][2]]

\* [...ms].sort((a, b) => (b.watchability_score || 0) - (a.watchability_score || 0))
SortByScoreDescending_KeepsStoreOrder(ms) == ms

SortByScoreDescending(ms) ==
    LET sorted == SortDescending(
                    [i \in DOMAIN ms |-> <<OrZero(ms[i].watchability_score), ms[i]>>])
    IN [i \in DOMAIN sorted |-> sorted[i][2]]

\* array.slice(0, limit), limit >= 0
Slice(seq, limit) == SubSeq(seq, 1, Min(limit, Len(seq)))

\* the filter of getMatchesByCompetition
CompetitionFilter_AlwaysContainment(ms, competition) ==
    SelectSeq(ms, LAMBDA m : Includes(m.competition, competition))

CompetitionFilter(ms, competition) ==
    IF competition = ChampionsLeague
    THEN SelectSeq(ms, LAMBDA m : Includes(m.competition, ChampionsLeague))
    ELSE IF competition = PremierLeague
    THEN SelectSeq(ms, LAMBDA m : Includes(m.competition, PremierLeague))
    ELSE SelectSeq(ms, LAMBDA m : m.competition = competition)

getAllMatches ==
    /\ response' = [op |-> "getAllMatches",
                    rows |-> SortByDateDescending(processedMatches(ratings, matches))]
    /\ UNCHANGED <<matches, ratings, nextMatchId, nextRatingId, isVercel,
                   submitted, loaded, savedWith, engineVars, sourceVars,
                   limiterVars, serverVars, sqliteVars, healthVars>>

getMatchesByCompetition(competition) ==
    /\ response' = [op |-> "getMatchesByCompetition", competition |-> competition,
                    rows |-> SortByDateDescending(
                        processedMatches(ratings, CompetitionFilter(matches, competition)))]
    /\ UNCHANGED <<matches, ratings, nextMatchId, nextRatingId, isVercel,
                   submitted, loaded, savedWith, engineVars, sourceVars,
                   limiterVars, serverVars, sqliteVars, healthVars>>

getTopRatedMatches(limit) ==
    /\ response' = [op |-> "getTopRatedMatches", limit |-> limit,
                    rows |-> processedMatches(ratings,
                                Slice(SortByScoreDescending(matches), limit))]
    /\ UNCHANGED <<matches, ratings, nextMatchId, nextRatingId, isVercel,
                   submitted, loaded, savedWith, engineVars, sourceVars,
                   limiterVars, serverVars, sqliteVars, healthVars>>

---------------------------------------------------------------------------
(* The store under bounded traffic *)

\* external ids: fresh ones, and the id of the first sample match
ApiIds == 1..MaxApiId \cup {537817}

Fixture(home, away, h, a, date, competition, goals) ==
    [homeTeam |-> home, awayTeam |-> away, homeScore |-> h, awayScore |-> a,
     date |-> date, status |-> "FINISHED", competition |-> competition,
     goals |-> goals]

LeedsFulham ==
    Fixture("Leeds United FC", "Fulham FC", 1, 0, "2025-09-20T14:00:00Z",
            PremierLeague, <<Goal("home", 90)>>)

MadridMarseille ==
    Fixture("Real Madrid CF", "Olympique de Marseille", 1, 1, "2025-09-10T19:00:00Z",
            UEFAChampionsLeague, <<Goal("home", 10), Goal("away", 85)>>)

SevillaElche ==
    Fixture("Sevilla FC", "Elche CF", 0, 0, "2025-09-20T14:00:00Z", LaLiga, <<>>)

\* the rating the fetch loop hands to saveMatch with a match
EngineRating(fixture) == calculateRating(FootballRatingEngine, fixture).returned

\* ratings the engine did not produce for the match they come with
OtherRating(fixture, total, volume, timing, distribution, category) ==
    [EngineRating(fixture) EXCEPT
        !.totalScore = total,
        !.breakdown = [goalVolume |-> volume, goalTiming |-> timing,
                       goalDistribution |-> distribution],
        !.rating = category]

\* the (match, rating) pairs saveMatch is called with, the id apart
SaveCalls ==
    { [match |-> f, rating |-> EngineRating(f)] :
          f \in {LeedsFulham, MadridMarseille, SevillaElche} }
    \cup
    { [match |-> LeedsFulham,
       rating |-> OtherRating(LeedsFulham, 77, 50, 20, 7, "AMAZING")],
      [match |-> MadridMarseille,
       rating |-> OtherRating(MadridMarseille, 0, 0, 0, 0, "Very Poor")] }

WithId(fixture, id) ==
    [id |-> id, homeTeam |-> fixture.homeTeam, awayTeam |-> fixture.awayTeam,
     homeScore |-> fixture.homeScore, awayScore |-> fixture.awayScore,
     date |-> fixture.date, status |-> fixture.status,
     competition |-> fixture.competition, goals |-> fixture.goals]

Competitions ==
    {PremierLeague, ChampionsLeague, UEFAChampionsLeague, LaLiga, <<"League">>}

Limits == {1, 2, 10}

\* a saveMatch call of POST /api/matches/fetch or of autoFetchOnStartup
SaveMatch ==
    \E id \in ApiIds, call \in SaveCalls,
       writeFails \in (IF isVercel THEN {FALSE} ELSE BOOLEAN) :
        /\ saveMatch(WithId(call.match, id), call.rating, writeFails)
        /\ UNCHANGED <<engineVars, sourceVars, limiterVars, serverVars, sqliteVars, healthVars>>

\* GET /api/matches
GetAllMatches == getAllMatches

\* GET /api/matches/competition/:competition
GetMatchesByCompetition == \E c \in Competitions : getMatchesByCompetition(c)

\* GET /api/matches/top-rated
GetTopRatedMatches == \E limit \in Limits : getTopRatedMatches(limit)

InitStore ==
    /\ EngineIdle
    /\ SourceIdle
    /\ LimiterIdle
    /\ ServerIdle
    /\ SqliteIdle
    /\ HealthIdle
    /\ isVercel \in BOOLEAN
    /\ \E dirFails \in BOOLEAN :
         LET db == initialize(isVercel, dirFails)
         IN /\ matches = db.matches
            /\ ratings = db.ratings
            /\ nextMatchId = db.nextMatchId
            /\ nextRatingId = db.nextRatingId
            /\ loaded = {db.matches[i].api_id : i \in DOMAIN db.matches}
    /\ response = [op |-> "none"]
    /\ submitted = {}
    /\ savedWith = {}

NextStore ==
    \/ SaveMatch
    \/ GetAllMatches
    \/ GetMatchesByCompetition
    \/ GetTopRatedMatches

SpecStore == InitStore /\ [][NextStore]_vars

ReadOps == {"getAllMatches", "getMatchesByCompetition", "getTopRatedMatches"}

---------------------------------------------------------------------------
(* Claims about the store *)

C8_NoSharedApiId ==
    \A i, j \in DOMAIN matches : matches[i].api_id = matches[j].api_id => i = j

\* C8 as stated: at every point no two stored matches share an api_id, and
\* the number of stored matches equals the number of distinct external ids
\* submitted to saveMatch so far.
C8_OnePerSubmittedId ==
    /\ C8_NoSharedApiId
    /\ Len(matches) = Cardinality(submitted)

\* C8 amended: at every point no two stored matches share an api_id, and the
\* stored external ids are exactly those initialize() loaded and those
\* submitted to saveMatch so far; the number of stored matches is the number
\* of distinct ids among them.
C8_OnePerKnownId ==
    /\ C8_NoSharedApiId
    /\ {matches[i].api_id : i \in DOMAIN matches} = loaded \cup submitted
    /\ Len(matches) = Cardinality(loaded \cup submitted)

\* an id first submitted by an earlier call has just been submitted again
\* with another rating, with a second submitted id stored as well
C8_Witness ==
    /\ response.op = "saveMatch"
    /\ response.matchData.id \notin loaded
    /\ \E i \in DOMAIN matches :
         /\ matches[i].api_id = response.matchData.id
         /\ matches[i].watchability_score # response.ratingData.totalScore
    /\ Cardinality(submitted \ loaded) >= 2

\* C9: a saveMatch call whose matchData.id equals the api_id of a stored
\* match returns that match's internal id and leaves matches, ratings,
\* nextMatchId and nextRatingId as they were, whatever match data and rating
\* come with it.
C9_ExistingIdIsNoOp ==
    [][ \A i \in DOMAIN matches :
          (response'.op = "saveMatch" /\ response'.matchData.id = matches[i].api_id)
            => /\ response'.threw = FALSE
               /\ response'.returned = matches[i].id
               /\ matches' = matches
               /\ ratings' = ratings
               /\ nextMatchId' = nextMatchId
               /\ nextRatingId' = nextRatingId ]_vars

\* the last call came with the id of a sample match, with another fixture's
\* data and rating, and returned the sample match's internal id
C9_Witness ==
    /\ response.op = "saveMatch"
    /\ response.matchData.id \in loaded
    /\ \E i \in DOMAIN matches :
         /\ matches[i].api_id = response.matchData.id
         /\ matches[i].home_team # response.matchData.homeTeam
         /\ matches[i].watchability_score # response.ratingData.totalScore
         /\ response.returned = matches[i].id

C11_TopRated ==
    response.op = "getTopRatedMatches" =>
        LET rows == response.rows
            N == response.limit
        IN /\ N >= 1
           /\ Len(rows) = (IF N <= Len(matches) THEN N ELSE Len(matches))
           /\ \A i \in DOMAIN rows :
                \E j \in DOMAIN matches :
                    /\ matches[j].id = rows[i].id
                    /\ matches[j].api_id = rows[i].apiId
                    /\ matches[j].watchability_score = rows[i].rating.totalScore
           /\ \A i, k \in DOMAIN rows : rows[i].id = rows[k].id => i = k
           /\ \A i, k \in DOMAIN rows :
                i < k => rows[i].rating.totalScore >= rows[k].rating.totalScore
           /\ \A j \in DOMAIN matches :
                (\A i \in DOMAIN rows : rows[i].id # matches[j].id) =>
                    \A i \in DOMAIN rows :
                        matches[j].watchability_score <= rows[i].rating.totalScore

\* the top 2 of at least four stored matches, the second best of them the
\* one stored last
C11_Witness ==
    /\ response.op = "getTopRatedMatches"
    /\ response.limit = 2
    /\ Len(matches) >= 4
    /\ Len(response.rows) = 2
    /\ response.rows[2].id = matches[Len(matches)].id
    /\ response.rows[1].rating.totalScore > response.rows[2].rating.totalScore

\* C12: getAllMatches returns every stored match exactly once, most recent
\* date first, whatever the order the matches were saved in, and leaves the
\* store as it was.
C12_AllByDate ==
    /\ [](response.op = "getAllMatches" =>
            LET rows == response.rows
            IN /\ Len(rows) = Len(matches)
               /\ \A j \in DOMAIN matches :
                    \E i \in DOMAIN rows :
                        /\ rows[i].id = matches[j].id
                        /\ rows[i].apiId = matches[j].api_id
                        /\ rows[i].date = matches[j].date
               /\ \A i, k \in DOMAIN rows : rows[i].id = rows[k].id => i = k
               /\ \A i, k \in DOMAIN rows :
                    i < k => NewDate(rows[i].date) >= NewDate(rows[k].date))
    /\ [][response'.op = "getAllMatches" =>
            /\ matches' = matches
            /\ ratings' = ratings
            /\ nextMatchId' = nextMatchId
            /\ nextRatingId' = nextRatingId]_vars

\* all matches of a store of at least four, the most recent one stored last
\* and the oldest one stored first
C12_Witness ==
    /\ response.op = "getAllMatches"
    /\ Len(matches) >= 4
    /\ Len(response.rows) = Len(matches)
    /\ response.rows[1].id = matches[Len(matches)].id
    /\ response.rows[Len(matches)].id = matches[1].id

\* the filter of C13: containment for the two named filters, equality for
\* every other
C13_Selects(name, c) ==
    IF c = <<"Premier", "League">> \/ c = <<"Champions", "League">>
    THEN \E i \in 1..(Len(name) - Len(c) + 1) :
            \A k \in 1..Len(c) : name[i + k - 1] = c[k]
    ELSE name = c

\* C13: getMatchesByCompetition(c) returns exactly the stored matches whose
\* competition contains c for c = 'Premier League' or 'Champions League',
\* and exactly those whose competition equals c for any other c: the rows
\* getAllMatches returns for them, in the same order.
C13_ByCompetition ==
    response.op = "getMatchesByCompetition" =>
        response.rows =
            SelectSeq(SortByDateDescending(processedMatches(ratings, matches)),
                      LAMBDA row : C13_Selects(row.competition, response.competition))

\* the filter 'Champions League' returns two 'UEFA Champions League' matches
\* of a store that holds other competitions as well
C13_Witness ==
    /\ response.op = "getMatchesByCompetition"
    /\ response.competition = <<"Champions", "League">>
    /\ Len(response.rows) = 2
    /\ \A i \in DOMAIN response.rows :
            response.rows[i].competition = <<"UEFA", "Champions", "League">>
    /\ Len(matches) > 2

---------------------------------------------------------------------------
(* FootballAPIService: the rate limiter (ratingEngine.js lines 193-239).   *)
(* Up to MaxParallel makeAPIRequest calls are under way at a time; a call  *)
(* is at rest ("idle": not started, or its request is out) or sleeps in    *)
(* enforceRateLimit's setTimeout ("waiting").  The clock moves in steps of *)
(* TickMs and a timer fires at the time it was set for.                    *)

maxCallsPerMinute == 10

OneMinute == 60 * 1000

TickMs == OneMinute \div TicksPerMinute

\* this.callHistory.filter(timestamp => timestamp > t - 60 * 1000)
FilterRecent(history, t) == SelectSeq(history, LAMBDA ts : ts > t - OneMinute)

\* Math.min(...history), history not empty
MathMin(history) ==
    CHOOSE m \in {history[i] : i \in DOMAIN history} :
        \A i \in DOMAIN history : m <= history[i]

\* makeAPIRequest, call c, up to the first point it yields: enforceRateLimit
\* filters the history and either sleeps until the oldest call is a minute
\* old or records the call, after which the request goes out
EnterCall(c) ==
    /\ caller[c].pc = "idle"
    /\ calls < MaxCalls
    /\ calls' = calls + 1
    /\ LET recent == FilterRecent(callHistory, now)
       IN IF Len(recent) >= maxCallsPerMinute
                /\ (MathMin(recent) + OneMinute) - now > 0
          THEN /\ callHistory' = recent
               /\ caller' = [caller EXCEPT ![c] =
                                [pc |-> "waiting", now |-> now,
                                 wakeAt |-> MathMin(recent) + OneMinute]]
               /\ UNCHANGED issued
          ELSE /\ callHistory' = Append(recent, now)
               /\ issued' = Append(issued, now)
               /\ UNCHANGED caller
    /\ UNCHANGED <<now, engineVars, sourceVars, storeVars, serverVars, sqliteVars, healthVars>>

\* the timer of call c fires: enforceRateLimit filters the history again,
\* records the time the call came in (its const now), and the request goes out
WakeCall(c) ==
    /\ caller[c].pc = "waiting"
    /\ now >= caller[c].wakeAt
    /\ callHistory' = Append(FilterRecent(callHistory, now), caller[c].now)
    /\ issued' = Append(issued, now)
    /\ caller' = [caller EXCEPT ![c] = [pc |-> "idle", now |-> 0, wakeAt |-> 0]]
    /\ UNCHANGED <<now, calls, engineVars, sourceVars, storeVars, serverVars, sqliteVars, healthVars>>

\* time passes, no due timer left behind; requests that went out a minute
\* or more before the new time are dropped from the history variable issued
Tick ==
    /\ now + TickMs <= MaxMinutes * OneMinute
    /\ \A c \in 1..MaxParallel : caller[c].pc = "waiting" => caller[c].wakeAt > now
    /\ now' = now + TickMs
    /\ issued' = SelectSeq(issued, LAMBDA ts : ts > now + TickMs - OneMinute)
    /\ UNCHANGED <<callHistory, caller, calls, engineVars, sourceVars, storeVars,
                   serverVars, sqliteVars, healthVars>>

InitLimiter ==
    /\ LimiterIdle
    /\ EngineIdle
    /\ SourceIdle
    /\ StoreIdle
    /\ ServerIdle
    /\ SqliteIdle
    /\ HealthIdle

NextLimiter ==
    \/ \E c \in 1..MaxParallel : EnterCall(c)
    \/ \E c \in 1..MaxParallel : WakeCall(c)
    \/ Tick

SpecLimiter == InitLimiter /\ [][NextLimiter]_vars

\* C14: at most 10 outbound requests go out within any 60-second window,
\* and callHistory never holds more than 10 timestamps of the last 60
\* seconds, under any interleaving of parallel makeAPIRequest calls.
C14_AtMostTenPerMinute ==
    /\ \A i \in DOMAIN issued :
          Cardinality({j \in DOMAIN issued :
                          issued[j] >= issued[i] /\ issued[j] < issued[i] + 60000}) <= 10
    /\ Cardinality({i \in DOMAIN callHistory : callHistory[i] > now - 60000}) <= 10

---------------------------------------------------------------------------
(* The fetch-and-rate pipeline: POST /api/matches/fetch (server.js lines   *)
(* 74-120; autoFetchOnStartup runs the same loop without a response) and   *)
(* GET /api/matches/:matchId/details (server.js lines 135-157).            *)
(*                                                                         *)
(* A reply of the upstream API is [outcome, matches]: "ok" with the raw    *)
(* matches, or "failed" (unreachable, or an error status such as 429:      *)
(* axios.get throws).  http is [op, status, processed]: status 0 while a   *)
(* fetch run has not responded, else the HTTP status; processed is the     *)
(* number of matches the response reports.  One fetch run is under way at  *)
(* a time.                                                                 *)

RawOf(id, competition, status, h, a, details) ==
    [RawMatch(status, h, a, details) EXCEPT !.id = id, !.competition = competition]

\* raw matches that need no invented goal minutes: goalless, or with details
FetchRaw(id, competition) ==
    {RawOf(id, competition, st, 0, 0, <<>>) : st \in {"FINISHED", "IN_PLAY"}}
    \cup
    {RawOf(id, competition, st, 1, 0, <<[teamId |-> HomeId, minute |-> 90]>>) :
        st \in {"FINISHED", "IN_PLAY"}}

UpstreamReplies(id, competition) ==
    {[outcome |-> "failed", matches |-> <<>>]}
    \cup {[outcome |-> "ok", matches |-> l] :
            l \in SeqsUpTo(FetchRaw(id, competition), MaxFetched)}

DetailReplies(id, competition) ==
    {[outcome |-> "failed", matches |-> <<>>]}
    \cup {[outcome |-> "ok", matches |-> <<m>>] : m \in FetchRaw(id, competition)}

NoDraws(raw) == [i \in DOMAIN raw |-> <<>>]

\* getPremierLeagueMatches / getChampionsLeagueMatches: the formatted
\* matches of the reply; the catch turns a failed request into []
getCompetitionMatches(reply) ==
    IF reply.outcome = "failed" THEN <<>>
    ELSE formatMatches(reply.matches, NoDraws(reply.matches))

\* getRecentMatches: [...premierLeague, ...championsLeague]
getRecentMatches(pl, cl) == getCompetitionMatches(pl) \o getCompetitionMatches(cl)

\* getMatchDetails: <<>> stands for null, <<details>> for the details
getMatchDetails_AnyStatus(reply) ==
    IF reply.outcome = "failed" THEN <<>>
    ELSE <<formatMatch(reply.matches[1], <<>>)>>

getMatchDetails(reply) ==
    IF reply.outcome = "failed" THEN <<>>
    ELSE IF reply.matches[1].status # "FINISHED" THEN <<>>
    ELSE <<formatMatch(reply.matches[1], <<>>)>>

Unfinished(raw) == Cardinality({i \in DOMAIN raw : raw[i].status # "FINISHED"})

\* POST /api/matches/fetch up to its loop: getRecentMatches
FetchStart ==
    /\ ~(http.op = "fetch" /\ http.status = 0)
    /\ \E pl \in UpstreamReplies(1, PremierLeague),
          cl \in UpstreamReplies(2, UEFAChampionsLeague) :
         /\ upstream' = [op |-> "fetch",
                         failed |-> (pl.outcome = "failed" \/ cl.outcome = "failed"),
                         unfinished |-> Unfinished(pl.matches) + Unfinished(cl.matches)]
         /\ pending' = getRecentMatches(pl, cl)
    /\ http' = [op |-> "fetch", status |-> 0, processed |-> 0]
    /\ UNCHANGED <<passed, engineVars, sourceVars, storeVars, limiterVars, sqliteVars, healthVars>>

\* one round of the loop: skip a match that is not FINISHED, else rate it and
\* save it; a saveMatch that throws ends the run with status 500
ProcessNext ==
    /\ http.op = "fetch" /\ http.status = 0
    /\ pending # <<>>
    /\ LET match == Head(pending)
           call == calculateRating(engine, match)
       IN IF match.status # "FINISHED"
          THEN /\ pending' = Tail(pending)
               /\ UNCHANGED <<http, passed, engine, storeVars>>
          ELSE /\ engine' = call.self
               /\ passed' = passed \cup {match.status}
               /\ \E writeFails \in (IF isVercel THEN {FALSE} ELSE BOOLEAN) :
                    saveMatch(match, call.returned, writeFails)
               /\ IF response'.threw
                  THEN /\ pending' = <<>>
                       /\ http' = [op |-> "fetch", status |-> 500, processed |-> 0]
                  ELSE /\ pending' = Tail(pending)
                       /\ http' = [http EXCEPT !.processed = @ + 1]
    /\ UNCHANGED <<upstream, matchData, rating, sourceVars, limiterVars, sqliteVars, healthVars>>

\* the loop is over: res.json({message: `Processed n matches`, ...})
FetchDone ==
    /\ http.op = "fetch" /\ http.status = 0
    /\ pending = <<>>
    /\ http' = [http EXCEPT !.status = 200]
    /\ UNCHANGED <<upstream, pending, passed, engineVars, sourceVars, storeVars,
                   limiterVars, sqliteVars, healthVars>>

\* GET /api/matches/:matchId/details: 404 when getMatchDetails returns null,
\* else the details with their rating
MatchDetails ==
    /\ ~(http.op = "fetch" /\ http.status = 0)
    /\ \E reply \in DetailReplies(1, PremierLeague) :
         LET details == getMatchDetails(reply)
         IN /\ upstream' = [op |-> "details",
                            failed |-> (reply.outcome = "failed"),
                            unfinished |-> Unfinished(reply.matches)]
            /\ IF details = <<>>
               THEN /\ http' = [op |-> "details", status |-> 404, processed |-> 0]
                    /\ UNCHANGED <<passed, engine>>
               ELSE /\ http' = [op |-> "details", status |-> 200, processed |-> 1]
                    /\ passed' = passed \cup {details[1].status}
                    /\ engine' = calculateRating(engine, details[1]).self
    /\ UNCHANGED <<pending, matchData, rating, sourceVars, storeVars, limiterVars, sqliteVars, healthVars>>

InitFetch ==
    /\ EngineIdle
    /\ SourceIdle
    /\ StoreIdle
    /\ LimiterIdle
    /\ ServerIdle
    /\ SqliteIdle
    /\ HealthIdle

NextFetch ==
    \/ FetchStart
    \/ ProcessNext
    \/ FetchDone
    \/ MatchDetails

SpecFetch == InitFetch /\ [][NextFetch]_vars

\* the server on the store initialize() seeds with the sample data: in
\* Vercel mode, or locally after the fallback
InitSeededFetch ==
    /\ EngineIdle
    /\ SourceIdle
    /\ LimiterIdle
    /\ ServerIdle
    /\ SqliteIdle
    /\ HealthIdle
    /\ isVercel \in BOOLEAN
    /\ LET db == initialize(isVercel, TRUE)
       IN /\ matches = db.matches
          /\ ratings = db.ratings
          /\ nextMatchId = db.nextMatchId
          /\ nextRatingId = db.nextRatingId
          /\ loaded = {db.matches[i].api_id : i \in DOMAIN db.matches}
    /\ response = [op |-> "none"]
    /\ submitted = {}
    /\ savedWith = {}

SpecSeededFetch == InitSeededFetch /\ [][NextFetch]_vars

\* C15: in the fetch run and the details request only FINISHED matches are
\* handed to calculateRating and saveMatch; from an empty store, every
\* stored match is FINISHED after any sequence of fetch runs.
C15_OnlyFinished ==
    /\ \A s \in passed : s = "FINISHED"
    /\ \A i \in DOMAIN matches : matches[i].status = "FINISHED"
    /\ \A id \in submitted : \E i \in DOMAIN matches : matches[i].api_id = id

\* a fetch run that received a match in play has ended with a match stored
C15_Witness ==
    /\ upstream.op = "fetch"
    /\ upstream.unfinished > 0
    /\ http.status = 200
    /\ http.processed >= 1
    /\ Len(matches) >= 1

\* C16: after a failed upstream request the caller gets an error: a fetch
\* run does not answer 200 as a run that found no finished match does, and
\* a details request does not answer 404 as for a match that is not found
\* or not finished.
C16_FailureSurfaced ==
    (upstream.op # "none" /\ upstream.failed /\ http.status # 0) =>
        /\ http.op = "fetch" => http.status # 200
        /\ http.op = "details" => http.status # 404

---------------------------------------------------------------------------
(* The rating engine on score lines below zero and on the goals of the     *)
(* documented 4-3 example                                                  *)

\* score lines with negative entries, the goals list short
NegativeInputs ==
    {MatchInput(h, a, g) :
        h \in (-MaxNegative)..MaxNegative, a \in (-MaxNegative)..MaxNegative,
        g \in SeqsUpTo(EngineGoals, 1)}

InitNegative ==
    /\ engine = FootballRatingEngine
    /\ matchData \in NegativeInputs
    /\ rating = <<>>
    /\ SourceIdle
    /\ StoreIdle
    /\ LimiterIdle
    /\ ServerIdle
    /\ SqliteIdle
    /\ HealthIdle

SpecNegative == InitNegative /\ [][NextEngine]_vars

\* the goals of the 4-3 example, in minute order
ExampleGoals ==
    <<Goal("home", 12), Goal("away", 28), Goal("home", 35), Goal("away", 50),
      Goal("home", 67), Goal("away", 74), Goal("home", 89)>>

\* goals[i] for the i in keep, in list order
RECURSIVE Selection(_, _)
Selection(goals, keep) ==
    IF goals = <<>> THEN <<>>
    ELSE LET rest == Selection(Tail(goals), {i - 1 : i \in keep \ {1}})
         IN IF 1 \in keep THEN <<Head(goals)>> \o rest ELSE rest

\* the example match and every match made of a selection of its goals
ExampleInputs ==
    {MatchInput(CountTeam(g, "home"), CountTeam(g, "away"), g) :
        g \in {Selection(ExampleGoals, keep) : keep \in SUBSET DOMAIN ExampleGoals}}

InitExample ==
    /\ engine = FootballRatingEngine
    /\ matchData \in ExampleInputs
    /\ rating = <<>>
    /\ SourceIdle
    /\ StoreIdle
    /\ LimiterIdle
    /\ ServerIdle
    /\ SqliteIdle
    /\ HealthIdle

SpecExample == InitExample /\ [][NextEngine]_vars

\* C17: for homeScore + awayScore < 0 the volume scorer clamps to 0 or
\* rejects the input; a rating returned for a negative total never has a
\* positive goalVolume.
C17_NegativeTotalScoresNothing ==
    (Rated /\ matchData.homeScore + matchData.awayScore < 0) =>
        rating[1].breakdown.goalVolume = 0

\* the rating categories of the README and of GET /api/rating-categories
C18_Legend ==
    {[name |-> "Excellent", min |-> 90, max |-> 100],
     [name |-> "Very Good", min |-> 75, max |-> 89],
     [name |-> "Good", min |-> 60, max |-> 74],
     [name |-> "Average", min |-> 40, max |-> 59],
     [name |-> "Poor", min |-> 20, max |-> 39],
     [name |-> "Very Poor", min |-> 0, max |-> 19]}

\* C18: the label calculateRating returns is the README's category of the
\* total score: Excellent 90-100, Very Good 75-89, Good 60-74, Average
\* 40-59, Poor 20-39, Very Poor 0-19.
C18_LabelFollowsLegend ==
    Rated =>
        \E cat \in C18_Legend :
            /\ cat.min <= rating[1].totalScore
            /\ rating[1].totalScore <= cat.max
            /\ rating[1].rating = cat.name

---------------------------------------------------------------------------
(* The distribution walk: score line against goal list, list order, the   *)
(* comeback bonus, and the two sides                                      *)

\* C21 as stated: for every input with homeScore = 0 and awayScore = 0 the
\* distribution scorer returns 0, whatever the goals list holds.
C21_GoallessScoreLineScoresNothing ==
    (Rated /\ matchData.homeScore = 0 /\ matchData.awayScore = 0) =>
        rating[1].breakdown.goalDistribution = 0

\* C21: a 0-0 match with an empty goals list is rated goalVolume 0,
\* goalTiming 0, goalDistribution 0, totalScore 0 and 'Very Poor', and the
\* distribution scorer returns 0 for it.
C21_ScenarioB ==
    (Rated /\ matchData.homeScore = 0 /\ matchData.awayScore = 0
           /\ matchData.goals = <<>>) =>
        /\ calculateGoalDistributionScore(engine, matchData, matchData.goals) = 0
        /\ rating[1].breakdown =
              [goalVolume |-> 0, goalTiming |-> 0, goalDistribution |-> 0]
        /\ rating[1].totalScore = 0
        /\ rating[1].rating = "Very Poor"

C21_Witness ==
    /\ Rated
    /\ matchData.homeScore = 0
    /\ matchData.awayScore = 0
    /\ matchData.goals = <<>>
    /\ rating[1].match.totalGoals = 0

\* the goals of a list all carry a minute, and no two the same one
C22_DistinctMinutes(goals) ==
    /\ \A i \in DOMAIN goals : goals[i].hasMinute
    /\ \A i, j \in DOMAIN goals : i # j => goals[i].minute # goals[j].minute

\* the list with its goals in the order p gives
C22_Reordered(goals, p) == [i \in DOMAIN goals |-> goals[p[i]]]

\* C22: two inputs that differ only in the order of their goals list (the
\* minutes pairwise distinct) get the same goalDistribution, breakdown,
\* totalScore and category from calculateRating.
C22_OrderOfListIrrelevant ==
    (Rated /\ C22_DistinctMinutes(matchData.goals)) =>
        \A p \in Permutations(DOMAIN matchData.goals) :
            LET other == calculateRating(engine,
                            [matchData EXCEPT !.goals = C22_Reordered(@, p)]).returned
            IN /\ other.breakdown = rating[1].breakdown
               /\ other.totalScore = rating[1].totalScore
               /\ other.rating = rating[1].rating

\* the tallies before the i-th goal of a list
C23_Before(goals, i) ==
    DistributionWalk([homeGoals |-> 0, awayGoals |-> 0, score |-> 0],
                     SubSeq(goals, 1, i - 1))

\* the side scoring the goal was strictly ahead before it
C23_AlreadyAhead(acc, goal) ==
    \/ goal.team = "home" /\ acc.homeGoals > acc.awayGoals
    \/ goal.team = "away" /\ acc.awayGoals > acc.homeGoals

\* what the walk adds for one goal holds the +4: the +3 excludes the +4 and
\* the +2, so the sums are 0, 2, 3, 4 and 6
C23_EarnsComeback(acc, goal) ==
    DistributionStep(acc, goal).score - acc.score >= 4

\* C23: in the walk of a goal list, a goal of a side that was strictly ahead
\* just before it never earns the +4 comeback bonus.
C23_ComebackOnlyFromBehind ==
    Rated =>
        \A i \in DOMAIN matchData.goals :
            LET acc == C23_Before(matchData.goals, i)
                goal == matchData.goals[i]
            IN C23_AlreadyAhead(acc, goal) => ~C23_EarnsComeback(acc, goal)

\* the other side's tag
C28_OtherSide(team) ==
    IF team = "home" THEN "away" ELSE IF team = "away" THEN "home" ELSE team

\* the input with the score line swapped and every goal's tag flipped
C28_Mirrored(md) ==
    [md EXCEPT !.homeScore = md.awayScore,
               !.awayScore = md.homeScore,
               !.goals = [i \in DOMAIN md.goals |->
                             [md.goals[i] EXCEPT !.team = C28_OtherSide(@)]]]

\* C28: swapping homeScore with awayScore and flipping every goal's team
\* tag, minutes and list order kept, leaves goalVolume, goalTiming,
\* goalDistribution, totalScore and the category as they were.
C28_SidesSymmetric ==
    Rated =>
        LET other == calculateRating(engine, C28_Mirrored(matchData)).returned
        IN /\ other.breakdown = rating[1].breakdown
           /\ other.totalScore = rating[1].totalScore
           /\ other.rating = rating[1].rating

C28_Witness ==
    /\ Rated
    /\ matchData.homeScore = 2
    /\ matchData.awayScore = 1
    /\ matchData.goals = <<Goal("away", 79), Goal("home", 80), Goal("home", 90)>>
    /\ rating[1].breakdown.goalDistribution = 15 + 3 + 4 + 2

---------------------------------------------------------------------------
(* The JSON store's records: a failing write, the ids, and the ratings    *)
(* against the engine                                                     *)

\* C25: a saveMatch that throws because the data files could not be written
\* leaves the matches list, the ratings list, nextMatchId and nextRatingId
\* as they were before the call.
C25_FailedSaveChangesNothing ==
    [][(response'.op = "saveMatch" /\ response'.threw /\ response' # response) =>
          UNCHANGED <<matches, ratings, nextMatchId, nextRatingId>>]_vars

\* the rating records of a stored match
C26_RatingsOf(id) == {k \in DOMAIN ratings : ratings[k].match_id = id}

\* C26: after any sequence of saveMatch calls from the empty or the seeded
\* dataset, internal match ids are pairwise distinct, nextMatchId is greater
\* than every stored id, every stored match has exactly one rating record,
\* and every rating record belongs to a stored match.
C26_IdsAndRatings ==
    /\ \A i, j \in DOMAIN matches : i # j => matches[i].id # matches[j].id
    /\ \A i \in DOMAIN matches : matches[i].id < nextMatchId
    /\ \A i \in DOMAIN matches : Cardinality(C26_RatingsOf(matches[i].id)) = 1
    /\ \A k \in DOMAIN ratings :
          \E i \in DOMAIN matches : matches[i].id = ratings[k].match_id

\* a match saved on top of the three seeded ones, or a second match saved
\* into a store that started empty
C26_Witness ==
    /\ response.op = "saveMatch"
    /\ ~response.threw
    /\ response.returned = Len(matches)
    /\ Len(matches) \in {2, 4}
    /\ Len(ratings) = Len(matches)

\* the engine's rating of a stored match
C29_EngineRatingOf(match) ==
    calculateRating(FootballRatingEngine,
        [homeTeam |-> match.home_team, awayTeam |-> match.away_team,
         homeScore |-> match.home_score, awayScore |-> match.away_score,
         goals |-> JSONParse(match.goals)]).returned

\* C29: for every record of the seeded dataset and every record saved by a
\* fetch run, the stored component scores and total equal what
\* calculateRating returns for the stored score line and goals, and the
\* stored total is the sum of the three stored components.
C29_StoredIsEngineRating ==
    \A i \in DOMAIN matches :
        LET k == FindRating(ratings, matches[i].id)
            r == C29_EngineRatingOf(matches[i])
        IN /\ k # 0
           /\ ratings[k].goal_volume_score = r.breakdown.goalVolume
           /\ ratings[k].goal_timing_score = r.breakdown.goalTiming
           /\ ratings[k].goal_distribution_score = r.breakdown.goalDistribution
           /\ ratings[k].total_score = r.totalScore
           /\ ratings[k].total_score =
                 ratings[k].goal_volume_score + ratings[k].goal_timing_score
                     + ratings[k].goal_distribution_score

---------------------------------------------------------------------------
(* The stores that recompute a breakdown on reading: FootballDatabase of   *)
(* the plain JSON store, whose read operations fill in a breakdown stored  *)
(* as all zeros from the raw goals (the SQLite store's reads carry the     *)
(* same block)                                                            *)

\* the if-chain on totalGoals
RecalculateVolume(totalGoals) ==
    IF totalGoals = 0 THEN 0
    ELSE IF totalGoals = 1 THEN 5
    ELSE IF totalGoals = 2 THEN 15
    ELSE IF totalGoals = 3 THEN 25
    ELSE IF totalGoals = 4 THEN 35
    ELSE IF totalGoals = 5 THEN 45
    ELSE 50

\* the first goals.forEach: timingScore
RECURSIVE RecalculateTiming(_, _)
RecalculateTiming(timingScore, goals) ==
    IF goals = <<>> THEN timingScore
    ELSE LET goal == Head(goals)
             minute == IF goal.hasMinute THEN OrZero(goal.minute) ELSE 0
         IN RecalculateTiming(
                timingScore + (IF minute <= 15 THEN 3 ELSE 0)
                            + (IF minute >= 75 THEN 3 ELSE 0)
                            + (IF minute >= 90 THEN 5 ELSE 0)
                            + (IF minute >= 80 THEN 2 ELSE 0),
                Tail(goals))

\* the second goals.forEach: st holds distributionScore, homeGoals, awayGoals
RECURSIVE RecalculateDistribution(_, _)
RecalculateDistribution(st, goals) ==
    IF goals = <<>> THEN st.distributionScore
    ELSE LET goal == Head(goals)
             late == goal.hasMinute /\ goal.minute >= 80
             h == st.homeGoals + (IF goal.team = "home" THEN 1 ELSE 0)
             a == st.awayGoals + (IF goal.team = "away" THEN 1 ELSE 0)
             add == IF goal.team = "home" THEN
                        (IF h > a /\ a > 0 THEN 4 ELSE 0)
                      + (IF h = a /\ a > 0 THEN 3 ELSE 0)
                      + (IF late /\ h > a THEN 2 ELSE 0)
                    ELSE IF goal.team = "away" THEN
                        (IF a > h /\ h > 0 THEN 4 ELSE 0)
                      + (IF a = h /\ h > 0 THEN 3 ELSE 0)
                      + (IF late /\ a > h THEN 2 ELSE 0)
                    ELSE 0
         IN RecalculateDistribution(
                [distributionScore |-> st.distributionScore + add,
                 homeGoals |-> h, awayGoals |-> a],
                Tail(goals))

RecalculatedBreakdown_EitherSideScored(match, goals) ==
    [goalVolume |-> RecalculateVolume(match.home_score + match.away_score),
     goalTiming |-> Min(RecalculateTiming(0, goals), 25),
     goalDistribution |->
        Min(RecalculateDistribution(
                [distributionScore |->
                    IF match.home_score > 0 \/ match.away_score > 0 THEN 15 ELSE 0,
                 homeGoals |-> 0, awayGoals |-> 0],
                goals),
            25)]

\* the body of `if (breakdown is all zeros && goals.length > 0)`
RecalculatedBreakdown(match, goals) ==
    [goalVolume |-> RecalculateVolume(match.home_score + match.away_score),
     goalTiming |-> Min(RecalculateTiming(0, goals), 25),
     goalDistribution |->
        Min(RecalculateDistribution(
                [distributionScore |->
                    IF match.home_score > 0 /\ match.away_score > 0 THEN 15 ELSE 0,
                 homeGoals |-> 0, awayGoals |-> 0],
                goals),
            25)]

\* the map callback of the read operations of this store
ProcessRowWithFallback(rs, match) ==
    LET k == FindRating(rs, match.id)
        goals == JSONParse(match.goals)
        stored ==
            [goalVolume |-> IF k = 0 THEN 0 ELSE OrZero(rs[k].goal_volume_score),
             goalTiming |-> IF k = 0 THEN 0 ELSE OrZero(rs[k].goal_timing_score),
             goalDistribution |->
                 IF k = 0 THEN 0 ELSE OrZero(rs[k].goal_distribution_score)]
        breakdown ==
            IF stored.goalVolume = 0 /\ stored.goalTiming = 0
                    /\ stored.goalDistribution = 0 /\ Len(goals) > 0
            THEN RecalculatedBreakdown(match, goals)
            ELSE stored
    IN [id |-> match.id, apiId |-> match.api_id,
        homeTeam |-> match.home_team, awayTeam |-> match.away_team,
        homeScore |-> match.home_score, awayScore |-> match.away_score,
        date |-> match.date, status |-> match.status,
        competition |-> match.competition, goals |-> JSONParse(match.goals),
        rating |-> [totalScore |-> OrZero(match.watchability_score),
                    breakdown |-> breakdown,
                    category |-> match.rating_category]]

\* getAllMatches of this store
getAllMatchesWithFallback ==
    /\ response' =
          [op |-> "getAllMatches",
           rows |-> SortByDateDescending(
                        [i \in DOMAIN matches |-> ProcessRowWithFallback(ratings, matches[i])])]
    /\ UNCHANGED <<matches, ratings, nextMatchId, nextRatingId, isVercel,
                   submitted, loaded, savedWith, engineVars, sourceVars,
                   limiterVars, serverVars, sqliteVars, healthVars>>

\* a rating as older records hold it: total and category, the three
\* breakdown columns never filled
WithoutBreakdown(rd) ==
    [rd EXCEPT !.breakdown = [goalVolume |-> 0, goalTiming |-> 0, goalDistribution |-> 0]]

\* the matches to store: every score line against every short goals list
StoredInputs ==
    {WithId(Fixture("Home FC", "Away FC", h, a, "2025-09-20T14:00:00Z",
                    PremierLeague, g), 1) :
        h \in 0..MaxScore, a \in 0..MaxScore,
        g \in SeqsUpTo(EngineGoals, MaxStoredGoals)}

\* the fetch loop's body on this store: rate the match, save it; or the
\* record as an older version saved it
RateAndSave ==
    /\ rating = <<>>
    /\ LET call == calculateRating(engine, matchData)
       IN /\ rating' = <<call.returned>>
          /\ engine' = call.self
          /\ matchData' = call.matchData
          /\ \E rd \in {call.returned, WithoutBreakdown(call.returned)},
                writeFails \in BOOLEAN :
                saveMatch(matchData, rd, writeFails)
    /\ UNCHANGED <<sourceVars, limiterVars, serverVars, sqliteVars, healthVars>>

\* GET /api/matches on this store
ReadStored == getAllMatchesWithFallback

InitFallback ==
    /\ engine = FootballRatingEngine
    /\ matchData \in StoredInputs
    /\ rating = <<>>
    /\ SourceIdle
    /\ StoreIdle
    /\ LimiterIdle
    /\ ServerIdle
    /\ SqliteIdle
    /\ HealthIdle

NextFallback ==
    \/ RateAndSave
    \/ ReadStored

SpecFallback == InitFallback /\ [][NextFallback]_vars

\* the stored record was saved with the rating the engine gave it
C27_SavedWithEngineRating(match) ==
    [apiId |-> match.api_id, rating |-> C29_EngineRatingOf(match)] \in savedWith

\* C27: for every stored record the breakdown the read operations recompute
\* from the raw goals equals the breakdown calculateRating returns for the
\* same score line and goals; a read returns the engine's breakdown for a
\* record stored with an all-zero breakdown and goals, and for a record
\* saved with the engine's rating it returns the saved breakdown.
C27_FallbackAgreesWithEngine ==
    /\ \A i \in DOMAIN matches :
          RecalculatedBreakdown(matches[i], JSONParse(matches[i].goals))
              = C29_EngineRatingOf(matches[i]).breakdown
    /\ response.op = "getAllMatches" =>
          \A n \in DOMAIN response.rows :
              LET row == response.rows[n]
                  i == FindByApiId(matches, row.apiId)
                  k == FindRating(ratings, matches[i].id)
                  engineBreakdown == C29_EngineRatingOf(matches[i]).breakdown
              IN /\ C27_SavedWithEngineRating(matches[i]) =>
                        /\ row.rating.breakdown = engineBreakdown
                        /\ row.rating.breakdown.goalVolume = ratings[k].goal_volume_score
                        /\ row.rating.breakdown.goalTiming = ratings[k].goal_timing_score
                        /\ row.rating.breakdown.goalDistribution
                              = ratings[k].goal_distribution_score
                 /\ row.goals # <<>> => row.rating.breakdown = engineBreakdown

\* a read recomputed the breakdown of a 1-1 record stored with zeros
C27_Witness ==
    /\ response.op = "getAllMatches"
    /\ Len(response.rows) = 1
    /\ response.rows[1].goals = <<Goal("away", 79), Goal("home", 80)>>
    /\ response.rows[1].homeScore = 1
    /\ response.rows[1].awayScore = 1
    /\ ratings[1].goal_volume_score = 0
    /\ ratings[1].goal_distribution_score = 0
    /\ response.rows[1].rating.breakdown =
          [goalVolume |-> 15, goalTiming |-> 8, goalDistribution |-> 18]

---------------------------------------------------------------------------
(* The SQLite store (class Database): saveMatch is a SELECT, then in the   *)
(* SELECT's callback an INSERT into matches, then in that INSERT's         *)
(* callback an INSERT into ratings.  Statements of calls under way at the  *)
(* same time interleave; matches.api_id is UNIQUE.  matches and ratings    *)
(* hold the two tables' rows, nextMatchId and nextRatingId the             *)
(* AUTOINCREMENT sequences.                                               *)

SqlCalls == 1..MaxParallel

SqlIds == 1..MaxSqlIds

\* a call not made yet
SqlNotCalled ==
    [pc |-> "idle", matchData |-> WithId(SevillaElche, 0),
     ratingData |-> EngineRating(SevillaElche),
     rowAtStart |-> FALSE, lastID |-> 0, returned |-> 0]

\* saveMatch(matchData, ratingData) up to db.get(checkMatch, [id], ...);
\* rowAtStart records whether the external id had its row when the call began
SqlSaveMatch(c) ==
    /\ saving[c].pc = "idle"
    /\ \E id \in SqlIds, fixture \in {LeedsFulham, MadridMarseille} :
         saving' = [saving EXCEPT ![c] =
            [pc |-> "get", matchData |-> WithId(fixture, id),
             ratingData |-> EngineRating(fixture),
             rowAtStart |-> FindByApiId(matches, id) # 0,
             lastID |-> 0, returned |-> 0]]
    /\ submitted' = submitted \cup {saving'[c].matchData.id}
    /\ UNCHANGED <<matches, ratings, nextMatchId, nextRatingId, isVercel,
                   response, loaded, savedWith, engineVars, sourceVars,
                   limiterVars, serverVars, healthVars>>

\* SELECT id FROM matches WHERE api_id = ? and its callback: resolve(row.id)
\* when there is a row, else db.run(insertMatch, ...)
SqlGetCallback(c) ==
    /\ saving[c].pc = "get"
    /\ LET k == FindByApiId(matches, saving[c].matchData.id)
       IN saving' = [saving EXCEPT ![c] =
             IF k # 0 THEN [@ EXCEPT !.pc = "resolved", !.returned = matches[k].id]
                      ELSE [@ EXCEPT !.pc = "insertMatch"]]
    /\ UNCHANGED <<storeVars, engineVars, sourceVars, limiterVars, serverVars,
                   healthVars>>

\* INSERT INTO matches and its callback: the UNIQUE constraint on api_id
\* fails the statement when the id has a row by now (reject(err)); else the
\* row is added, this.lastID is its id, and db.run(insertRating, ...) follows
SqlInsertMatch(c) ==
    /\ saving[c].pc = "insertMatch"
    /\ IF FindByApiId(matches, saving[c].matchData.id) # 0
       THEN /\ saving' = [saving EXCEPT ![c].pc = "rejected"]
            /\ UNCHANGED <<matches, nextMatchId, savedWith>>
       ELSE /\ matches' = Append(matches,
                   newMatch(nextMatchId, saving[c].matchData, saving[c].ratingData))
            /\ nextMatchId' = nextMatchId + 1
            /\ savedWith' = savedWith \cup
                  {[apiId |-> saving[c].matchData.id, rating |-> saving[c].ratingData]}
            /\ saving' = [saving EXCEPT ![c].pc = "insertRating",
                                        ![c].lastID = nextMatchId]
    /\ UNCHANGED <<ratings, nextRatingId, isVercel, response, submitted, loaded,
                   engineVars, sourceVars, limiterVars, serverVars, healthVars>>

\* INSERT INTO ratings and its callback: resolve(matchId)
SqlInsertRating(c) ==
    /\ saving[c].pc = "insertRating"
    /\ ratings' = Append(ratings,
                     newRating(nextRatingId, saving[c].lastID, saving[c].ratingData))
    /\ nextRatingId' = nextRatingId + 1
    /\ saving' = [saving EXCEPT ![c].pc = "resolved",
                                ![c].returned = saving[c].lastID]
    /\ UNCHANGED <<matches, nextMatchId, isVercel, response, submitted, loaded,
                   savedWith, engineVars, sourceVars, limiterVars, serverVars,
                   healthVars>>

\* the tables as createTables leaves a new database file
InitSqlite ==
    /\ EngineIdle
    /\ SourceIdle
    /\ StoreIdle
    /\ LimiterIdle
    /\ ServerIdle
    /\ HealthIdle
    /\ saving = [c \in SqlCalls |-> SqlNotCalled]

NextSqlite ==
    \E c \in SqlCalls :
        \/ SqlSaveMatch(c)
        \/ SqlGetCallback(c)
        \/ SqlInsertMatch(c)
        \/ SqlInsertRating(c)

SpecSqlite == InitSqlite /\ [][NextSqlite]_vars

\* the call has settled
C24_Settled(c) == saving[c].pc \in {"resolved", "rejected"}

\* C24: two saveMatch calls for the same external id, each begun before the
\* id had its row, both resolve with the same internal match id and leave
\* exactly one match row and one rating row for the id; neither rejects.
C24_ConcurrentSavesAgree ==
    \A c, d \in SqlCalls :
        (/\ c # d
         /\ C24_Settled(c) /\ C24_Settled(d)
         /\ saving[c].matchData.id = saving[d].matchData.id
         /\ ~saving[c].rowAtStart /\ ~saving[d].rowAtStart) =>
            /\ saving[c].pc = "resolved"
            /\ saving[d].pc = "resolved"
            /\ saving[c].returned = saving[d].returned
            /\ Cardinality({i \in DOMAIN matches :
                              matches[i].api_id = saving[c].matchData.id}) = 1
            /\ Cardinality({k \in DOMAIN ratings :
                              ratings[k].match_id = saving[c].returned}) = 1

---------------------------------------------------------------------------
(* The server's start: database.initialize() settles some time after the   *)
(* server begins to answer; app.use('/api', ...) is registered before the  *)
(* routes and guards every path under /api; checkHealth of the page polls  *)
(* GET /api/health.                                                       *)

Clients == 1..MaxClients

\* no response received
NoResponse ==
    [status |-> 0, answeredBy |-> "none", bodyStatus |-> "undefined",
     database |-> "undefined", initialized |-> FALSE]

\* app.get('/api/health'): res.json({status: 'ok', database: ...})
HealthHandler ==
    [status |-> 200, answeredBy |-> "health", bodyStatus |-> "ok",
     database |-> IF dbInitialized THEN "initialized" ELSE "not initialized",
     initialized |-> dbInitialized]

\* app.use('/api', (req, res, next) => ...): 503 {error, message} while
\* dbInitialized is false, else next()
InitializationGate(next) ==
    IF ~dbInitialized
    THEN [status |-> 503, answeredBy |-> "gate", bodyStatus |-> "undefined",
          database |-> "undefined", initialized |-> dbInitialized]
    ELSE next

\* GET /api/health through the middleware stack; initialized records the
\* flag at the time of the answer
GetHealth == InitializationGate(HealthHandler)

\* .then(() => { dbInitialized = true })
InitializeResolves ==
    /\ initialization = "pending"
    /\ initialization' = "resolved"
    /\ dbInitialized' = TRUE
    /\ UNCHANGED <<client, engineVars, sourceVars, storeVars, limiterVars,
                   serverVars, sqliteVars>>

\* .catch((err) => { dbInitialized = false })
InitializeRejects ==
    /\ initialization = "pending"
    /\ initialization' = "rejected"
    /\ dbInitialized' = FALSE
    /\ UNCHANGED <<client, engineVars, sourceVars, storeVars, limiterVars,
                   serverVars, sqliteVars>>

\* one round of checkHealth's loop up to the timer: fetch('/api/health'),
\* response.json(), return true when health.database === 'initialized'
PollHealth(c) ==
    /\ client[c].pc = "poll"
    /\ LET health == GetHealth
       IN client' = [client EXCEPT ![c] =
             [pc |-> IF health.database = "initialized" THEN "healthy" ELSE "wait",
              retries |-> @.retries,
              polls |-> @.polls + 1,
              health |-> health,
              seen |-> @.seen \cup {health.database}]]
    /\ UNCHANGED <<dbInitialized, initialization, engineVars, sourceVars,
                   storeVars, limiterVars, serverVars, sqliteVars>>

\* the 500 ms timer fires: retries++, then the loop test retries < 5
RetryHealth(c) ==
    /\ client[c].pc = "wait"
    /\ client' = [client EXCEPT ![c].retries = @ + 1,
                                ![c].pc = IF client[c].retries + 1 < MaxRetries
                                          THEN "poll" ELSE "timeout"]
    /\ UNCHANGED <<dbInitialized, initialization, engineVars, sourceVars,
                   storeVars, limiterVars, serverVars, sqliteVars>>

\* the pages' DOMContentLoaded handlers have called checkHealth
InitHealth ==
    /\ EngineIdle
    /\ SourceIdle
    /\ StoreIdle
    /\ LimiterIdle
    /\ ServerIdle
    /\ SqliteIdle
    /\ dbInitialized = FALSE
    /\ initialization = "pending"
    /\ client = [c \in Clients |->
                    [pc |-> "poll", retries |-> 0, polls |-> 0,
                     health |-> NoResponse, seen |-> {}]]

NextHealth ==
    \/ InitializeResolves
    \/ InitializeRejects
    \/ \E c \in Clients : PollHealth(c)
    \/ \E c \in Clients : RetryHealth(c)

SpecHealth == InitHealth /\ [][NextHealth]_vars

\* C30: every answer to GET /api/health comes from the health handler:
\* status 'ok' with database 'not initialized' while initialization has not
\* completed or has failed, database 'initialized' once it has completed;
\* checkHealth makes at most 5 polls.
C30_HealthAnsweredInEveryState ==
    \A c \in Clients :
        /\ client[c].polls <= MaxRetries
        /\ client[c].polls > 0 =>
              /\ client[c].health.answeredBy = "health"
              /\ client[c].health.bodyStatus = "ok"
              /\ client[c].health.database =
                    IF client[c].health.initialized THEN "initialized"
                                                    ELSE "not initialized"

=============================================================================
